---- MODULE Spec2Model ----
(***************************************************************************)
(* Model of fidesctl/core/evaluate.py: the rule comparator                 *)
(* (compare_rule_to_declaration), the rule evaluator (execute_evaluation), *)
(* the policy resolver (get_evaluation_policies, get_all_server_policies,  *)
(* validate_policies_exist) and the orchestrator (evaluate).               *)
(*                                                                         *)
(* Python values are modelled as follows: a list is a sequence, an         *)
(* Optional value is a sequence of length 0 (None) or 1, a pydantic model  *)
(* is a record, a formatted string is the sequence of its pieces.          *)
(***************************************************************************)
EXTENDS Integers, Sequences, FiniteSets, TLC

VARIABLES
    pc,                 \* position of the running function
    rule_types,         \* compare_rule_to_declaration: argument
    declaration_types,  \* compare_rule_to_declaration: argument
    rule_inclusion,     \* compare_rule_to_declaration: argument
    result,             \* compare_rule_to_declaration: Optional return value
    manifests,          \* what parse(manifests_dir) yields (local files)
    server,             \* resources held by the remote API, per resource type
    fides_key,          \* evaluate: argument ("" when no key is given)
    message,            \* evaluate: argument
    dry,                \* evaluate: argument
    taxonomy,           \* the Taxonomy object (Optional before parse)
    missing_resource_keys, \* evaluate: local variable
    evaluation,         \* the Evaluation object (Optional before execution)
    remote_calls,       \* log of the calls made to the remote API
    echoed,             \* log of echo_green / echo_red lines
    displayed,          \* log of pretty_echo(evaluation.dict())
    steps,              \* log of the steps of evaluate, in execution order
    returned            \* Optional value returned by evaluate

vars == <<pc, rule_types, declaration_types, rule_inclusion, result,
          manifests, server, fides_key, message, dry, taxonomy,
          missing_resource_keys, evaluation, remote_calls, echoed,
          displayed, steps, returned>>

----------------------------------------------------------------------------
(* Bounds of the model *)

MaxRuleVals == 2      \* longest rule value list drawn for the comparator
MaxDeclVals == 3      \* longest declaration value list drawn for the comparator
MaxSingleVals == 2    \* longest declaration value list of a one-quadruple taxonomy
MaxPolicies == 2      \* most policies of a taxonomy handed to execute_evaluation
MaxRules == 1         \* most rules of a policy
MaxSystems == 1       \* most systems of a taxonomy
MaxDeclarations == 2  \* most privacy declarations of a system
MaxLocal == 2         \* most policies in the local manifests
MaxRemote == 2        \* most policies on the server
MaxManifestSystems == 1 \* most systems in the local manifests

BoundedSeq(S, n) == UNION {[1..m -> S] : m \in 0..n}

Range(s) == {s[i] : i \in DOMAIN s}

IsInjective(s) == \A i, j \in DOMAIN s : s[i] = s[j] => i = j

\* the sequences of at most n distinct elements of S
DistinctSeq(S, n) == {s \in BoundedSeq(S, n) : IsInjective(s)}

----------------------------------------------------------------------------
(* Python builtins used by the code *)

Inclusions == {"ANY", "ALL", "NONE"}

\* x in xs, for a list xs: the first equal element decides
RECURSIVE InList(_, _)
InList(x, xs) ==
    IF xs = <<>> THEN FALSE
    ELSE IF Head(xs) = x THEN TRUE ELSE InList(x, Tail(xs))

\* any(bs)
RECURSIVE PyAny(_)
PyAny(bs) ==
    IF bs = <<>> THEN FALSE
    ELSE IF Head(bs) THEN TRUE ELSE PyAny(Tail(bs))

\* all(bs)
RECURSIVE PyAll(_)
PyAll(bs) ==
    IF bs = <<>> THEN TRUE
    ELSE IF Head(bs) THEN PyAll(Tail(bs)) ELSE FALSE

\* inclusion_map[rule_inclusion](bs)
inclusion_map_wrong_none(inclusion, bs) ==
    CASE inclusion = "ANY" -> PyAny(bs)
      [] inclusion = "ALL" -> PyAll(bs)
      [] inclusion = "NONE" -> ~PyAll(bs)

inclusion_map(inclusion, bs) ==
    CASE inclusion = "ANY" -> PyAny(bs)
      [] inclusion = "ALL" -> PyAll(bs)
      [] inclusion = "NONE" -> ~PyAny(bs)

matching_data_categories(rule_vals, declaration_vals) ==
    [i \in DOMAIN declaration_vals |-> InList(declaration_vals[i], rule_vals)]

compare_rule_to_declaration(rule_vals, declaration_vals, inclusion) ==
    inclusion_map(inclusion, matching_data_categories(rule_vals, declaration_vals))

----------------------------------------------------------------------------
(* Data model: fideslang Policy, Rule, System, PrivacyDeclaration,         *)
(* Taxonomy and Evaluation, with the fields the code reads                 *)

RuleField(vals, inclusion) == [values |-> vals, inclusion |-> inclusion]

Rule(name, cats, uses, subjects, qualifier) ==
    [name |-> name, data_categories |-> cats, data_uses |-> uses,
     data_subjects |-> subjects, data_qualifier |-> qualifier]

Declaration(name, cats, use, subjects, qualifier) ==
    [name |-> name, data_categories |-> cats, data_use |-> use,
     data_subjects |-> subjects, data_qualifier |-> qualifier]

Policy(key, name, rules) == [fides_key |-> key, name |-> name, rules |-> rules]

System(key, declarations) ==
    [fides_key |-> key, privacy_declarations |-> declarations]

\* a keyed resource of one of the data_* resource types
Resource(key, name) == [fides_key |-> key, name |-> name]

\* the resource types of a Taxonomy, in field order
ResourceTypes ==
    <<"data_category", "data_subject", "data_use", "data_qualifier",
      "system", "policy">>

Evaluation(status, details) ==
    [status |-> status, details |-> details, message |-> ""]

----------------------------------------------------------------------------
(* execute_evaluation *)

\* "Declaration ({}) of System ({}) failed Rule ({}) from Policy ({})".format
DetailFormat(declaration_name, system_key, rule_name, policy_key) ==
    <<"Declaration (", declaration_name, ") of System (", system_key,
      ") failed Rule (", rule_name, ") from Policy (", policy_key, ")">>

data_category_result(rule, declaration) ==
    compare_rule_to_declaration(rule.data_categories.values,
                                declaration.data_categories,
                                rule.data_categories.inclusion)

\* a declaration has one data use, so it is put in a list
data_use_result(rule, declaration) ==
    compare_rule_to_declaration(rule.data_uses.values,
                                <<declaration.data_use>>,
                                rule.data_uses.inclusion)

data_subject_result(rule, declaration) ==
    compare_rule_to_declaration(rule.data_subjects.values,
                                declaration.data_subjects,
                                rule.data_subjects.inclusion)

data_qualifier_result(rule, declaration) ==
    declaration.data_qualifier = rule.data_qualifier

\* the condition of the if statement: all([...]) of the four results
RuleTriggeredNoQualifier(rule, declaration) ==
    PyAll(<<data_category_result(rule, declaration),
            data_subject_result(rule, declaration),
            data_use_result(rule, declaration)>>)

RuleTriggered(rule, declaration) ==
    PyAll(<<data_category_result(rule, declaration),
            data_subject_result(rule, declaration),
            data_use_result(rule, declaration),
            data_qualifier_result(rule, declaration)>>)

\* for declaration in system.privacy_declarations, from index l on
RECURSIVE DeclarationLoop(_, _, _, _, _)
DeclarationLoop(policy, rule, system, l, detail_list) ==
    IF l > Len(system.privacy_declarations) THEN detail_list
    ELSE LET declaration == system.privacy_declarations[l]
         IN DeclarationLoop(policy, rule, system, l + 1,
                IF RuleTriggered(rule, declaration)
                THEN detail_list \o
                     <<DetailFormat(declaration.name, system.fides_key,
                                    rule.name, policy.fides_key)>>
                ELSE detail_list)

\* for system in taxonomy.system, from index k on
RECURSIVE SystemLoop(_, _, _, _, _)
SystemLoop(policy, rule, systems, k, detail_list) ==
    IF k > Len(systems) THEN detail_list
    ELSE SystemLoop(policy, rule, systems, k + 1,
                    DeclarationLoop(policy, rule, systems[k], 1, detail_list))

\* for rule in policy.rules, from index j on
RECURSIVE RuleLoop(_, _, _, _)
RuleLoop(policy, systems, j, detail_list) ==
    IF j > Len(policy.rules) THEN detail_list
    ELSE RuleLoop(policy, systems, j + 1,
                  SystemLoop(policy, policy.rules[j], systems, 1, detail_list))

\* for policy in taxonomy.policy, from index i on
RECURSIVE PolicyLoop(_, _, _, _)
PolicyLoop(policies, systems, i, detail_list) ==
    IF i > Len(policies) THEN detail_list
    ELSE PolicyLoop(policies, systems, i + 1,
                    RuleLoop(policies[i], systems, 1, detail_list))

evaluation_detail_list(tax) == PolicyLoop(tax.policy, tax.system, 1, <<>>)

status_enum_always_pass(detail_list) == "PASS"

status_enum(detail_list) == IF Len(detail_list) > 0 THEN "FAIL" ELSE "PASS"

execute_evaluation(tax) ==
    LET detail_list == evaluation_detail_list(tax)
    IN Evaluation(status_enum(detail_list), detail_list)

----------------------------------------------------------------------------
(* Remote resource API and reference resolver (collaborators).  Each       *)
(* operator yields the value returned and the remote calls it made.        *)

Call(call, resource_type, resource_key) ==
    [call |-> call, resource_type |-> resource_type,
     resource_key |-> resource_key]

\* the first element of list whose fides_key is key, as an Optional
RECURSIVE FirstWithKey(_, _)
FirstWithKey(list, key) ==
    IF list = <<>> THEN <<>>
    ELSE IF Head(list).fides_key = key THEN <<Head(list)>>
         ELSE FirstWithKey(Tail(list), key)

\* get(resource_type, key) -> Resource | None
get_server_resource(srv, resource_type, resource_key) ==
    [value |-> FirstWithKey(srv[resource_type], resource_key),
     calls |-> <<Call("get", resource_type, resource_key)>>]

\* get_many(resource_type, keys) -> [Resource]
RECURSIVE get_server_resources(_, _, _)
get_server_resources(srv, resource_type, existing_keys) ==
    IF existing_keys = <<>> THEN [value |-> <<>>, calls |-> <<>>]
    ELSE LET first == get_server_resource(srv, resource_type,
                                          Head(existing_keys))
             rest == get_server_resources(srv, resource_type,
                                          Tail(existing_keys))
         IN [value |-> first.value \o rest.value,
             calls |-> first.calls \o rest.calls]

\* list(resource_type) -> [key]
api_ls(srv, resource_type) ==
    [value |-> [i \in DOMAIN srv[resource_type] |->
                    srv[resource_type][i].fides_key],
     calls |-> <<Call("ls", resource_type, "")>>]

RuleKeys(rule) ==
    Range(rule.data_categories.values) \cup Range(rule.data_uses.values)
    \cup Range(rule.data_subjects.values) \cup {rule.data_qualifier}

DeclarationKeys(declaration) ==
    Range(declaration.data_categories) \cup {declaration.data_use}
    \cup Range(declaration.data_subjects) \cup {declaration.data_qualifier}

PolicyReferencedKeys(policy) ==
    UNION {RuleKeys(policy.rules[j]) : j \in DOMAIN policy.rules}

SystemReferencedKeys(system) ==
    UNION {DeclarationKeys(system.privacy_declarations[l]) :
             l \in DOMAIN system.privacy_declarations}

\* the keys the resources of the taxonomy refer to
ReferencedKeys(tax) ==
    UNION {PolicyReferencedKeys(tax.policy[i]) : i \in DOMAIN tax.policy}
    \cup UNION {SystemReferencedKeys(tax.system[k]) : k \in DOMAIN tax.system}

\* the keys of the resources the taxonomy holds, whatever their type
PresentKeys(tax) ==
    UNION {{tax[ResourceTypes[t]][n].fides_key :
              n \in DOMAIN tax[ResourceTypes[t]]} : t \in DOMAIN ResourceTypes}

\* find_missing_references(taxonomy) -> [key]
get_referenced_missing_keys(tax) == ReferencedKeys(tax) \ PresentKeys(tax)

\* hydrate(taxonomy, keys) -> Taxonomy: per resource type, the resources
\* the server holds under the missing keys are appended to the taxonomy
hydrate_missing_resources(srv, missing_keys, dehydrated_taxonomy) ==
    LET fetched == [t \in DOMAIN ResourceTypes |->
                      get_server_resources(srv, ResourceTypes[t], missing_keys)]
        Hydrated(t) == dehydrated_taxonomy[ResourceTypes[t]] \o fetched[t].value
    IN [value |-> [data_category |-> Hydrated(1), data_subject |-> Hydrated(2),
                   data_use |-> Hydrated(3), data_qualifier |-> Hydrated(4),
                   system |-> Hydrated(5), policy |-> Hydrated(6)],
        calls |-> fetched[1].calls \o fetched[2].calls \o fetched[3].calls
                  \o fetched[4].calls \o fetched[5].calls \o fetched[6].calls]

----------------------------------------------------------------------------
(* Policy resolver *)

\* [resource["fides_key"] for resource in ls_response.json()
\*  if resource["fides_key"] not in exclude]
policy_keys_no_exclude(listed, exclude) == listed

RECURSIVE policy_keys(_, _)
policy_keys(listed, exclude) ==
    IF listed = <<>> THEN <<>>
    ELSE IF InList(Head(listed), exclude)
         THEN policy_keys(Tail(listed), exclude)
         ELSE <<Head(listed)>> \o policy_keys(Tail(listed), exclude)

\* exclude is an Optional list: None and [] both mean nothing is excluded
get_all_server_policies(srv, exclude) ==
    LET excluded == IF exclude = <<>> THEN <<>> ELSE exclude[1]
        ls_response == api_ls(srv, "policy")
        policy_list == get_server_resources(srv, "policy",
                           policy_keys(ls_response.value, excluded))
    IN [value |-> policy_list.value,
        calls |-> ls_response.calls \o policy_list.calls]

\* next(filter(lambda policy: policy.fides_key == key, local_policies), None)
local_policy_found(local_policies, evaluate_fides_key) ==
    FirstWithKey(local_policies, evaluate_fides_key)

\* [policy.fides_key for policy in local_policies] if local_policies else None
local_policy_keys(local_policies) ==
    IF local_policies = <<>> THEN <<>>
    ELSE <<[i \in DOMAIN local_policies |-> local_policies[i].fides_key]>>

get_evaluation_policies_always_remote(local_policies, evaluate_fides_key, srv) ==
    IF evaluate_fides_key # ""
    THEN LET found == local_policy_found(local_policies, evaluate_fides_key)
             server_policy_found ==
                 get_server_resource(srv, "policy", evaluate_fides_key)
         IN [value |-> IF found # <<>> THEN found ELSE server_policy_found.value,
             calls |-> server_policy_found.calls]
    ELSE LET server_policies ==
                 get_all_server_policies(srv, local_policy_keys(local_policies))
         IN [value |-> local_policies \o server_policies.value,
             calls |-> server_policies.calls]

get_evaluation_policies_list_all(local_policies, evaluate_fides_key, srv) ==
    LET found == local_policy_found(local_policies, evaluate_fides_key)
    IN IF evaluate_fides_key # "" /\ found # <<>>
       THEN [value |-> found, calls |-> <<>>]
       ELSE LET server_policies ==
                    get_all_server_policies(srv, local_policy_keys(local_policies))
                wanted == IF evaluate_fides_key = ""
                          THEN local_policies \o server_policies.value
                          ELSE FirstWithKey(server_policies.value,
                                            evaluate_fides_key)
            IN [value |-> wanted, calls |-> server_policies.calls]

get_evaluation_policies(local_policies, evaluate_fides_key, srv) ==
    IF evaluate_fides_key # ""
    THEN LET found == local_policy_found(local_policies, evaluate_fides_key)
         IN IF found # <<>>
            THEN [value |-> found, calls |-> <<>>]
            ELSE LET server_policy_found ==
                         get_server_resource(srv, "policy", evaluate_fides_key)
                 IN [value |-> server_policy_found.value,
                     calls |-> server_policy_found.calls]
    ELSE LET server_policies ==
                 get_all_server_policies(srv, local_policy_keys(local_policies))
         IN [value |-> local_policies \o server_policies.value,
             calls |-> server_policies.calls]

\* validate_policies_exist: the line echoed in red, None when it returns
validate_policies_exist_never(policies, evaluate_fides_key) == <<>>

validate_policies_exist(policies, evaluate_fides_key) ==
    IF policies = <<>>
    THEN IF evaluate_fides_key # ""
         THEN <<<<"Policy ", evaluate_fides_key, " could not be found">>>>
         ELSE <<<<"No Policies found to evaluate">>>>
    ELSE <<>>

----------------------------------------------------------------------------
(* Inputs drawn by the initial states *)

CompareKeys == {"k1", "k2", "k3"}

Categories == {"c1", "c2"}
Uses == {"u1", "u2"}
Subjects == {"s1", "s2"}
Qualifiers == {"q1", "q2"}

\* rules of a one-quadruple taxonomy: every combination of inclusion modes
SingleRules ==
    {Rule("r1", RuleField(<<"c1">>, ci), RuleField(<<"u1">>, ui),
          RuleField(<<"s1">>, si), "q1") : ci \in Inclusions,
          ui \in Inclusions, si \in Inclusions}

SingleDeclarations ==
    {Declaration("d1", cats, use, subjects, qualifier) :
        cats \in BoundedSeq(Categories, MaxSingleVals), use \in Uses,
        subjects \in BoundedSeq(Subjects, MaxSingleVals),
        qualifier \in Qualifiers}

R1 == Rule("r1", RuleField(<<"c1">>, "ANY"), RuleField(<<"u1">>, "ANY"),
           RuleField(<<"s1">>, "ANY"), "q1")
R2 == Rule("r2", RuleField(<<"c1", "c2">>, "ALL"), RuleField(<<"u1">>, "NONE"),
           RuleField(<<"s1">>, "ANY"), "q1")
R3 == Rule("r3", RuleField(<<"c1">>, "ANY"), RuleField(<<"u2">>, "ANY"),
           RuleField(<<"s1">>, "ANY"), "q1")

D1 == Declaration("d1", <<"c1">>, "u1", <<"s1">>, "q1")
D2 == Declaration("d2", <<"c1", "c2">>, "u2", <<"s1", "s2">>, "q1")
D3 == Declaration("d3", <<>>, "u1", <<"s1">>, "q2")

PolicyKeyAt == <<"A", "B", "C", "D">>
SystemKeyAt == <<"sys1", "sys2", "sys3", "sys4">>

TaxonomyOf(policies, systems) ==
    [data_category |-> <<>>, data_subject |-> <<>>, data_use |-> <<>>,
     data_qualifier |-> <<>>, system |-> systems, policy |-> policies]

SingleTaxonomies ==
    {TaxonomyOf(<<Policy("A", "policy A", <<r>>)>>, <<System("sys1", <<d>>)>>) :
        r \in SingleRules, d \in SingleDeclarations}

MultiPolicyLists ==
    UNION {{[i \in 1..n |-> Policy(PolicyKeyAt[i], "policy", rules[i])] :
              rules \in [1..n -> BoundedSeq({R1, R2}, MaxRules)]} :
           n \in 0..MaxPolicies}

MultiSystemLists ==
    UNION {{[k \in 1..n |-> System(SystemKeyAt[k], declarations[k])] :
              declarations \in [1..n -> BoundedSeq({D1, D2}, MaxDeclarations)]} :
           n \in 0..MaxSystems}

MultiTaxonomies ==
    {TaxonomyOf(policies, systems) :
        policies \in MultiPolicyLists, systems \in MultiSystemLists}

\* local manifests of a run of evaluate: each file defines one resource, two
\* files may use the same key
LocalPolicyPool ==
    {Policy("A", "local A", <<R1>>), Policy("A", "local A bis", <<R2>>),
     Policy("B", "local B", <<R1>>)}

RemotePolicyPool ==
    {Policy("A", "remote A", <<R3>>), Policy("B", "remote B", <<R2>>),
     Policy("C", "remote C", <<R3>>)}

ManifestSystemPool ==
    {System("sys1", <<D1>>), System("sys2", <<D2>>), System("sys3", <<D3>>)}

Manifests ==
    {[data_category |-> <<Resource("c1", "local c1"), Resource("c2", "local c2")>>,
      data_subject |-> <<Resource("s1", "local s1")>>,
      data_use |-> <<Resource("u1", "local u1")>>,
      data_qualifier |-> <<Resource("q1", "local q1"), Resource("q2", "local q2")>>,
      system |-> systems, policy |-> policies] :
        systems \in DistinctSeq(ManifestSystemPool, MaxManifestSystems),
        policies \in DistinctSeq(LocalPolicyPool, MaxLocal)}

\* the server holds at most one resource per key and type
ServerPolicyLists ==
    {policies \in BoundedSeq(RemotePolicyPool, MaxRemote) :
        IsInjective([i \in DOMAIN policies |-> policies[i].fides_key])}

ServerData ==
    {[data_use |-> <<>>, data_subject |-> <<>>],
     [data_use |-> <<Resource("u1", "remote u1"), Resource("u2", "remote u2")>>,
      data_subject |-> <<>>],
     [data_use |-> <<Resource("u1", "remote u1"), Resource("u2", "remote u2")>>,
      data_subject |-> <<Resource("s2", "remote s2")>>]}

Servers ==
    {[data_category |-> <<>>, data_subject |-> data.data_subject,
      data_use |-> data.data_use, data_qualifier |-> <<>>,
      system |-> <<>>, policy |-> policies] :
        data \in ServerData, policies \in ServerPolicyLists}

TargetKeys == {"", "A", "C", "D"}
Messages == {"first message", "second message"}

Orderings(S) == {s \in [1..Cardinality(S) -> S] : IsInjective(s)}

\* "\n".join(keys)
RECURSIVE JoinLines(_)
JoinLines(keys) ==
    IF keys = <<>> THEN <<>>
    ELSE IF Len(keys) = 1 THEN keys
         ELSE <<Head(keys), "\n">> \o JoinLines(Tail(keys))

Echo(fn, text) == [fn |-> fn, text |-> text]

----------------------------------------------------------------------------
(* compare_rule_to_declaration, called on its own *)

Idle ==
    /\ manifests = TaxonomyOf(<<>>, <<>>)
    /\ server = TaxonomyOf(<<>>, <<>>)
    /\ fides_key = ""
    /\ message = ""
    /\ dry = TRUE
    /\ missing_resource_keys = {}
    /\ remote_calls = <<>>
    /\ echoed = <<>>
    /\ displayed = <<>>
    /\ steps = <<>>
    /\ returned = <<>>

NoCompare ==
    /\ rule_types = <<>>
    /\ declaration_types = <<>>
    /\ rule_inclusion = "ANY"
    /\ result = <<>>

InitCompare ==
    /\ pc = "compare_rule_to_declaration"
    /\ rule_types \in BoundedSeq(CompareKeys, MaxRuleVals)
    /\ declaration_types \in BoundedSeq(CompareKeys, MaxDeclVals)
    /\ rule_inclusion \in Inclusions
    /\ result = <<>>
    /\ taxonomy = <<>>
    /\ evaluation = <<>>
    /\ Idle

Compare ==
    /\ pc = "compare_rule_to_declaration"
    /\ result' = <<compare_rule_to_declaration(rule_types, declaration_types,
                                               rule_inclusion)>>
    /\ pc' = "compared"
    /\ UNCHANGED <<rule_types, declaration_types, rule_inclusion, manifests,
                   server, fides_key, message, dry, taxonomy,
                   missing_resource_keys, evaluation, remote_calls, echoed,
                   displayed, steps, returned>>

NextCompare == Compare

SpecCompare == InitCompare /\ [][NextCompare]_vars

----------------------------------------------------------------------------
(* execute_evaluation, called on its own *)

InitExecute ==
    /\ pc = "execute_evaluation"
    /\ taxonomy \in {<<tax>> : tax \in SingleTaxonomies \cup MultiTaxonomies}
    /\ evaluation = <<>>
    /\ NoCompare
    /\ Idle

CallExecuteEvaluation ==
    /\ pc = "execute_evaluation"
    /\ evaluation' = <<execute_evaluation(taxonomy[1])>>
    /\ pc' = "executed"
    /\ UNCHANGED <<rule_types, declaration_types, rule_inclusion, result,
                   manifests, server, fides_key, message, dry, taxonomy,
                   missing_resource_keys, remote_calls, echoed, displayed,
                   steps, returned>>

NextExecute == CallExecuteEvaluation

SpecExecute == InitExecute /\ [][NextExecute]_vars

----------------------------------------------------------------------------
(* evaluate, one action per step of its body *)

Init ==
    /\ pc = "parse"
    /\ manifests \in Manifests
    /\ server \in Servers
    /\ fides_key \in TargetKeys
    /\ message \in Messages
    /\ dry \in BOOLEAN
    /\ taxonomy = <<>>
    /\ missing_resource_keys = {}
    /\ evaluation = <<>>
    /\ remote_calls = <<>>
    /\ echoed = <<>>
    /\ displayed = <<>>
    /\ steps = <<>>
    /\ returned = <<>>
    /\ NoCompare

\* taxonomy = parse(manifests_dir)
Parse ==
    /\ pc = "parse"
    /\ taxonomy' = <<manifests>>
    /\ steps' = Append(steps, "parse")
    /\ pc' = "resolve"
    /\ UNCHANGED <<rule_types, declaration_types, rule_inclusion, result,
                   manifests, server, fides_key, message, dry,
                   missing_resource_keys, evaluation, remote_calls, echoed,
                   displayed, returned>>

\* taxonomy.policy = get_evaluation_policies(...)
ResolvePolicies ==
    /\ pc = "resolve"
    /\ LET resolved == get_evaluation_policies(taxonomy[1].policy, fides_key,
                                               server)
       IN /\ taxonomy' = <<[taxonomy[1] EXCEPT !.policy = resolved.value]>>
          /\ remote_calls' = remote_calls \o resolved.calls
    /\ steps' = Append(steps, "resolve")
    /\ pc' = "validate"
    /\ UNCHANGED <<rule_types, declaration_types, rule_inclusion, result,
                   manifests, server, fides_key, message, dry,
                   missing_resource_keys, evaluation, echoed, displayed,
                   returned>>

\* validate_policies_exist(...), then the list of policies is echoed
ValidatePolicies ==
    /\ pc = "validate"
    /\ LET error == validate_policies_exist(taxonomy[1].policy, fides_key)
           keys == [i \in DOMAIN taxonomy[1].policy |->
                      taxonomy[1].policy[i].fides_key]
       IN IF error # <<>>
          THEN /\ echoed' = Append(echoed, Echo("echo_red", error[1]))
               /\ pc' = "raised"
          ELSE /\ echoed' = Append(echoed, Echo("echo_green",
                      <<"Evaluating the following policies:\n">>
                      \o JoinLines(keys)))
               /\ pc' = "detect"
    /\ steps' = Append(steps, "validate")
    /\ UNCHANGED <<rule_types, declaration_types, rule_inclusion, result,
                   manifests, server, fides_key, message, dry, taxonomy,
                   missing_resource_keys, evaluation, remote_calls, displayed,
                   returned>>

\* if missing_resource_keys:
needs_hydration_always(keys) == TRUE

needs_hydration(keys) == keys # {}

\* missing_resource_keys = get_referenced_missing_keys(taxonomy)
DetectMissing ==
    /\ pc = "detect"
    /\ missing_resource_keys' = get_referenced_missing_keys(taxonomy[1])
    /\ echoed' = Append(echoed, Echo("echo_green",
                                     <<"Checking for missing resources...">>))
    /\ steps' = Append(steps, "detect")
    /\ pc' = IF needs_hydration(missing_resource_keys') THEN "hydrate"
             ELSE "execute"
    /\ UNCHANGED <<rule_types, declaration_types, rule_inclusion, result,
                   manifests, server, fides_key, message, dry, taxonomy,
                   evaluation, remote_calls, displayed, returned>>

\* taxonomy = hydrate_missing_resources(...); the set of missing keys is
\* iterated in an order Python does not fix
HydrateAt(position, next) ==
    /\ pc = position
    /\ \E keys \in Orderings(missing_resource_keys) :
         LET hydrated == hydrate_missing_resources(server, keys, taxonomy[1])
         IN /\ echoed' = echoed \o
                  <<Echo("echo_green",
                         <<"Fetching the following missing resources from the server:\n">>
                         \o JoinLines(keys)),
                    Echo("echo_green", <<"Hydrating the taxonomy...">>)>>
            /\ taxonomy' = <<hydrated.value>>
            /\ remote_calls' = remote_calls \o hydrated.calls
    /\ steps' = Append(steps, "hydrate")
    /\ pc' = next
    /\ UNCHANGED <<rule_types, declaration_types, rule_inclusion, result,
                   manifests, server, fides_key, message, dry,
                   missing_resource_keys, evaluation, displayed, returned>>

Hydrate_after_evaluation == HydrateAt("message", "status")

Hydrate == HydrateAt("hydrate", "execute")

\* evaluation = execute_evaluation(taxonomy)
ExecuteEvaluation ==
    /\ pc = "execute"
    /\ echoed' = Append(echoed, Echo("echo_green", <<"Executing evaluations...">>))
    /\ evaluation' = <<execute_evaluation(taxonomy[1])>>
    /\ steps' = Append(steps, "execute")
    /\ pc' = "message"
    /\ UNCHANGED <<rule_types, declaration_types, rule_inclusion, result,
                   manifests, server, fides_key, message, dry, taxonomy,
                   missing_resource_keys, remote_calls, displayed, returned>>

\* evaluation.message = message
AttachMessage ==
    /\ pc = "message"
    /\ evaluation' = <<[evaluation[1] EXCEPT !.message = message]>>
    /\ steps' = Append(steps, "message")
    /\ pc' = "status"
    /\ UNCHANGED <<rule_types, declaration_types, rule_inclusion, result,
                   manifests, server, fides_key, message, dry, taxonomy,
                   missing_resource_keys, remote_calls, echoed, displayed,
                   returned>>

\* if evaluation.status == "FAIL":
status_is_fail_never(ev) == ev.status = "FAILED"

status_is_fail(ev) == ev.status = "FAIL"

\* pretty_echo(evaluation.dict(), color="red"); raise EvaluationError
FailEvaluation ==
    /\ pc = "status"
    /\ status_is_fail(evaluation[1])
    /\ displayed' = Append(displayed, evaluation[1])
    /\ pc' = "raised"
    /\ UNCHANGED <<rule_types, declaration_types, rule_inclusion, result,
                   manifests, server, fides_key, message, dry, taxonomy,
                   missing_resource_keys, evaluation, remote_calls, echoed,
                   steps, returned>>

\* the results are sent unless dry, success is echoed, evaluation is returned
PassEvaluation ==
    /\ pc = "status"
    /\ ~status_is_fail(evaluation[1])
    /\ echoed' = echoed
         \o (IF ~dry
             THEN <<Echo("echo_green",
                         <<"Sending the evaluation results to the server...">>)>>
             ELSE <<>>)
         \o <<Echo("echo_green", <<"Evaluation passed!">>)>>
    /\ returned' = <<evaluation[1]>>
    /\ pc' = "done"
    /\ UNCHANGED <<rule_types, declaration_types, rule_inclusion, result,
                   manifests, server, fides_key, message, dry, taxonomy,
                   missing_resource_keys, evaluation, remote_calls, displayed,
                   steps>>

Next ==
    \/ Parse
    \/ ResolvePolicies
    \/ ValidatePolicies
    \/ DetectMissing
    \/ Hydrate
    \/ ExecuteEvaluation
    \/ AttachMessage
    \/ FailEvaluation
    \/ PassEvaluation

Spec == Init /\ [][Next]_vars

----------------------------------------------------------------------------
(* Reference definitions used by the properties *)

\* the boolean-logic reading of an inclusion mode over the memberships d in R
RefCompare(R, D, inclusion) ==
    CASE inclusion = "ANY" -> \E i \in DOMAIN D : D[i] \in Range(R)
      [] inclusion = "ALL" -> \A i \in DOMAIN D : D[i] \in Range(R)
      [] inclusion = "NONE" -> \A i \in DOMAIN D : D[i] \notin Range(R)

\* the (policy, rule, system, declaration) quadruples of a taxonomy, by index
Quadruples(tax) ==
    UNION {UNION {UNION {{<<i, j, k, l>> :
                            l \in DOMAIN tax.system[k].privacy_declarations} :
                         k \in DOMAIN tax.system} :
                  j \in DOMAIN tax.policy[i].rules} :
           i \in DOMAIN tax.policy}

RuleOf(tax, q) == tax.policy[q[1]].rules[q[2]]
DeclarationOf(tax, q) == tax.system[q[3]].privacy_declarations[q[4]]

FourMatches(rule, declaration) ==
    /\ RefCompare(rule.data_categories.values, declaration.data_categories,
                  rule.data_categories.inclusion)
    /\ RefCompare(rule.data_uses.values, <<declaration.data_use>>,
                  rule.data_uses.inclusion)
    /\ RefCompare(rule.data_subjects.values, declaration.data_subjects,
                  rule.data_subjects.inclusion)
    /\ declaration.data_qualifier = rule.data_qualifier

ViolatingQuadruples(tax) ==
    {q \in Quadruples(tax) : FourMatches(RuleOf(tax, q), DeclarationOf(tax, q))}

DetailOf(tax, q) ==
    DetailFormat(DeclarationOf(tax, q).name, tax.system[q[3]].fides_key,
                 RuleOf(tax, q).name, tax.policy[q[1]].fides_key)

Occurrences(list, x) == Cardinality({n \in DOMAIN list : list[n] = x})

----------------------------------------------------------------------------
(* Properties *)

\* C1: the result of compare_rule_to_declaration is the boolean-logic reading
\* of the inclusion mode over the memberships of the declaration values in
\* the rule values: ANY iff some value is a rule value, ALL iff every value
\* is, NONE iff no value is; on an empty declaration list it is true for NONE
\* and ALL and false for ANY, whatever the rule values.
C1_CompareMatchesTruthTable ==
    pc = "compared" =>
        /\ result[1] = RefCompare(rule_types, declaration_types, rule_inclusion)
        /\ declaration_types = <<>> => result[1] = (rule_inclusion # "ANY")

C1_Witness ==
    /\ pc = "compared"
    /\ rule_inclusion = "NONE"
    /\ Len(declaration_types) = 3
    /\ rule_types # <<>>
    /\ result = <<TRUE>>

OneFullMatch(tax) ==
    /\ Len(tax.policy) = 1
    /\ Len(tax.policy[1].rules) = 1
    /\ Len(tax.system) = 1
    /\ Len(tax.system[1].privacy_declarations) = 1
    /\ FourMatches(tax.policy[1].rules[1], tax.system[1].privacy_declarations[1])

\* C3: the status of the Evaluation is FAIL iff its details are non-empty and
\* PASS iff they are empty; one fully matching quadruple yields FAIL with
\* exactly one detail, which names the declaration, the system key, the rule
\* name and the policy key.
C3_StatusFollowsDetails ==
    pc = "executed" =>
        LET tax == taxonomy[1]
            ev == evaluation[1]
        IN /\ ev.status \in {"PASS", "FAIL"}
           /\ ev.status = "FAIL" <=> ev.details # <<>>
           /\ ev.status = "PASS" <=> ev.details = <<>>
           /\ OneFullMatch(tax) =>
                /\ ev.status = "FAIL"
                /\ Len(ev.details) = 1
                /\ tax.system[1].privacy_declarations[1].name \in Range(ev.details[1])
                /\ tax.system[1].fides_key \in Range(ev.details[1])
                /\ tax.policy[1].rules[1].name \in Range(ev.details[1])
                /\ tax.policy[1].fides_key \in Range(ev.details[1])

C3_Witness ==
    /\ pc = "executed"
    /\ OneFullMatch(taxonomy[1])
    /\ evaluation[1].status = "FAIL"

----------------------------------------------------------------------------
(* Properties of the policy resolver, read right after it has returned *)

LocalKeys == {manifests.policy[i].fides_key : i \in DOMAIN manifests.policy}

ServerPolicyKeys == {server.policy[i].fides_key : i \in DOMAIN server.policy}

FirstLocalIndex(key) ==
    CHOOSE i \in DOMAIN manifests.policy :
        /\ manifests.policy[i].fides_key = key
        /\ \A j \in 1..(i - 1) : manifests.policy[j].fides_key # key

IsNotLocal(policy) == policy.fides_key \notin LocalKeys

\* C4: with a target key that is the key of a local policy, the resolved
\* list is exactly the first local policy with that key and no remote call
\* has been made.
C4_LocalTargetWinsWithoutRemoteCall ==
    (pc = "validate" /\ fides_key # "" /\ fides_key \in LocalKeys) =>
        /\ taxonomy[1].policy = <<manifests.policy[FirstLocalIndex(fides_key)]>>
        /\ remote_calls = <<>>

C4_Witness ==
    /\ pc = "validate"
    /\ fides_key = "A"
    /\ Len(manifests.policy) = 2
    /\ manifests.policy[1].fides_key = "A"
    /\ manifests.policy[2].fides_key = "A"
    /\ manifests.policy[1] # manifests.policy[2]
    /\ "A" \in ServerPolicyKeys
    /\ taxonomy[1].policy = <<manifests.policy[1]>>

\* C5: with no target key, the resolved list is the local policies in their
\* order followed by exactly the server policies whose key is not a local
\* key; no policy with a local key is fetched; with no local policy every
\* server policy is returned.
C5_LocalThenRemoteNotLocal ==
    (pc = "validate" /\ fides_key = "") =>
        /\ taxonomy[1].policy =
               manifests.policy \o SelectSeq(server.policy, IsNotLocal)
        /\ \A n \in DOMAIN remote_calls :
               remote_calls[n].call = "get" =>
                   remote_calls[n].resource_key \notin LocalKeys
        /\ manifests.policy = <<>> => taxonomy[1].policy = server.policy

C5_Witness ==
    /\ pc = "validate"
    /\ fides_key = ""
    /\ [i \in DOMAIN manifests.policy |-> manifests.policy[i].fides_key]
           = <<"A", "B">>
    /\ [i \in DOMAIN server.policy |-> server.policy[i].fides_key]
           = <<"B", "C">>
    /\ [i \in DOMAIN taxonomy[1].policy |-> taxonomy[1].policy[i].name]
           = <<"local A", "local B", "remote C">>

\* C6: with a target key that matches no local policy, the resolver makes
\* one remote call, a get of that key, and never lists the server policies;
\* it returns the one server policy with that key, or the empty list when
\* the server has none, and returns normally in both cases.
C6_RemoteTargetSingleGet ==
    (pc = "validate" /\ fides_key # "" /\ fides_key \notin LocalKeys) =>
        /\ remote_calls = <<Call("get", "policy", fides_key)>>
        /\ \A n \in DOMAIN remote_calls : remote_calls[n].call # "ls"
        /\ IF fides_key \in ServerPolicyKeys
           THEN /\ Len(taxonomy[1].policy) = 1
                /\ taxonomy[1].policy[1] \in Range(server.policy)
                /\ taxonomy[1].policy[1].fides_key = fides_key
           ELSE taxonomy[1].policy = <<>>

C6_Witness ==
    /\ pc = "validate"
    /\ fides_key = "D"
    /\ manifests.policy # <<>>
    /\ server.policy # <<>>
    /\ taxonomy[1].policy = <<>>

----------------------------------------------------------------------------
(* Properties of evaluate *)

ResolvedIsEmpty ==
    get_evaluation_policies(manifests.policy, fides_key, server).value = <<>>

ValidationDone == \E n \in DOMAIN steps : steps[n] = "validate"

\* C7: when the resolved policy set is empty, validation raises and the run
\* stops there: no missing-reference detection, no hydration fetch, no rule
\* evaluation, and nothing is returned.
C7_EmptyPolicySetAborts ==
    (ValidationDone /\ ResolvedIsEmpty) =>
        /\ pc = "raised"
        /\ steps = <<"parse", "resolve", "validate">>
        /\ missing_resource_keys = {}
        /\ remote_calls =
               get_evaluation_policies(manifests.policy, fides_key, server).calls
        /\ evaluation = <<>>
        /\ returned = <<>>
        /\ echoed[Len(echoed)].fn = "echo_red"

C7_Witness ==
    /\ pc = "raised"
    /\ fides_key = ""
    /\ manifests.system # <<>>
    /\ evaluation = <<>>
    /\ taxonomy[1].policy = <<>>

EchoedText(text) == \E n \in DOMAIN echoed : echoed[n].text = text

SuccessOrSubmissionEchoed ==
    \/ EchoedText(<<"Evaluation passed!">>)
    \/ EchoedText(<<"Sending the evaluation results to the server...">>)

\* C8: once the status check has run on a FAIL evaluation, the evaluation
\* with the caller's message has been displayed, the error is raised and
\* neither a submission nor a success line was echoed; every Evaluation that
\* evaluate returns has status PASS, no details and the caller's message.
C8_FailRaisesAfterDisplay ==
    /\ (evaluation # <<>> /\ evaluation[1].status = "FAIL"
        /\ pc \notin {"message", "status"}) =>
           /\ pc = "raised"
           /\ displayed = <<evaluation[1]>>
           /\ displayed[1].message = message
           /\ displayed[1].details # <<>>
           /\ returned = <<>>
           /\ ~SuccessOrSubmissionEchoed
    /\ returned # <<>> =>
           /\ pc = "done"
           /\ returned[1].status = "PASS"
           /\ returned[1].details = <<>>
           /\ returned[1].message = message
           /\ displayed = <<>>

C8_Witness ==
    /\ pc = "raised"
    /\ evaluation # <<>>
    /\ evaluation[1].status = "FAIL"
    /\ displayed # <<>>
    /\ message = "second message"

\* every resource of the taxonomy keeps its place and content in tax2
Preserved(tax1, tax2) ==
    \A t \in DOMAIN ResourceTypes :
        LET before == tax1[ResourceTypes[t]]
            after == tax2[ResourceTypes[t]]
        IN /\ Len(before) <= Len(after)
           /\ \A n \in DOMAIN before : after[n] = before[n]

\* what tax2 holds beyond tax1 are server resources under the given keys
OnlyAdds(tax1, tax2, keys) ==
    \A t \in DOMAIN ResourceTypes :
        LET before == tax1[ResourceTypes[t]]
            after == tax2[ResourceTypes[t]]
        IN \A n \in (DOMAIN after) \ (DOMAIN before) :
               /\ after[n].fides_key \in keys
               /\ after[n] \in Range(server[ResourceTypes[t]])

\* C9: the hydration step keeps every resource the taxonomy held just
\* before it, with the same content, and only adds resources whose keys were
\* reported missing; when no key is missing the step after detection is
\* the rule evaluation, on the unchanged taxonomy and with no remote call.
C9_HydrationStep ==
    /\ pc = "hydrate" =>
           /\ Preserved(taxonomy[1], taxonomy'[1])
           /\ OnlyAdds(taxonomy[1], taxonomy'[1], missing_resource_keys)
           /\ pc' = "execute"
    /\ (pc = "detect" /\ get_referenced_missing_keys(taxonomy[1]) = {}) =>
           /\ pc' = "execute"
           /\ taxonomy' = taxonomy
           /\ remote_calls' = remote_calls
    /\ pc = "execute" =>
           /\ taxonomy' = taxonomy
           /\ remote_calls' = remote_calls
           /\ evaluation' = <<execute_evaluation(taxonomy[1])>>

StepOrder ==
    <<"parse", "resolve", "validate", "detect", "hydrate", "execute", "message">>

StepOrderNoHydration ==
    <<"parse", "resolve", "validate", "detect", "execute", "message">>

IsPrefix(s, t) == Len(s) <= Len(t) /\ \A n \in DOMAIN s : s[n] = t[n]

StepsInOrder ==
    /\ IsPrefix(steps, StepOrder) \/ IsPrefix(steps, StepOrderNoHydration)
    /\ (\E n \in DOMAIN steps : steps[n] = "hydrate") =>
           missing_resource_keys # {}
    /\ (\E n \in DOMAIN steps : steps[n] = "execute") =>
           (missing_resource_keys # {} <=>
                \E n \in DOMAIN steps : steps[n] = "hydrate")

EvaluationStarted == pc \in {"execute", "message", "status", "raised", "done"}
                     /\ \E n \in DOMAIN steps : steps[n] = "detect"

\* C10: the steps of evaluate run in the one order parse, resolve, validate,
\* detect, hydrate (only when a key is missing), execute, attach message;
\* from the start of execute_evaluation on, the taxonomy never changes.
C10_Step ==
    /\ StepsInOrder'
    /\ Len(steps') <= Len(steps) + 1
    /\ IsPrefix(steps, steps')
    /\ EvaluationStarted => taxonomy' = taxonomy

C10_FixedOrderThenFrozen == [][C10_Step]_vars

C10_Witness ==
    /\ pc = "done"
    /\ steps = StepOrder
    /\ taxonomy[1] # manifests

====
